---- MODULE Spec2Model ----
(***************************************************************************)
(* Model of pkg/scaffold/api.go: the API scaffolder of kubebuilder.        *)
(*                                                                         *)
(* One API object (api) is driven by a caller: the caller constructs it or *)
(* changes its public fields, may call Validate(), and calls Scaffold().   *)
(* Scaffold() is modelled step by step (pc), every step that can return an *)
(* error does so nondeterministically, and the steps of the running (or    *)
(* last) Scaffold() call are recorded in trace.  The project file written  *)
(* by config.Save() is store; the files and in-place insertions on disk    *)
(* are disk.                                                               *)
(***************************************************************************)
EXTENDS Integers, Sequences, FiniteSets, TLC

VARIABLES
    api,      \* the API object: Plugins, Resource, config, DoResource, DoController, Force
    store,    \* the persisted project configuration (what config.Load reads, config.Save writes)
    disk,     \* files written and in-place insertions made, as <<task, group/version/kind>>
    pc,       \* position inside Scaffold(); "idle" between calls
    trace,    \* steps of the running or last Scaffold() call, in order; empty once
              \* the caller prepares the next call
    result,   \* what Validate()/Scaffold() last returned to the caller
    ready,    \* the caller has set up the API object for its next Scaffold() call
    calls     \* number of Scaffold() calls started

vars == <<api, store, disk, pc, trace, result, ready, calls>>

\* Number of Scaffold() calls explored.
MaxCalls == 2

Nil == "nil"

\* api.config before setDefaults has loaded it: the nil pointer
NilConfig == [Version |-> Nil, MultiGroup |-> FALSE, Resources |-> <<>>]

-----------------------------------------------------------------------------
(* Strings are sequences of characters, so that case folding is computed.  *)

Upper == <<"A","B","C","D","E","F","G","H","I","J","K","L","M",
           "N","O","P","Q","R","S","T","U","V","W","X","Y","Z">>
Lower == <<"a","b","c","d","e","f","g","h","i","j","k","l","m",
           "n","o","p","q","r","s","t","u","v","w","x","y","z">>

LowerChar(c) ==
    IF \E i \in DOMAIN Upper : Upper[i] = c
    THEN Lower[CHOOSE i \in DOMAIN Upper : Upper[i] = c]
    ELSE c

\* strings.ToLower
ToLower(s) == [i \in DOMAIN s |-> LowerChar(s[i])]

\* strings.EqualFold: equality under simple case folding (ASCII letters here)
EqualFold(s, t) ==
    /\ Len(s) = Len(t)
    /\ \A i \in DOMAIN s : LowerChar(s[i]) = LowerChar(t[i])

-----------------------------------------------------------------------------
(* The inputs the caller chooses from.                                     *)

apps  == <<"a","p","p","s">>
Apps  == <<"A","p","p","s">>
batch == <<"b","a","t","c","h">>
v1    == <<"v","1">>
Foo   == <<"F","o","o">>
Bar   == <<"B","a","r">>

GVK(g, v, k) == [Group |-> g, Version |-> v, Kind |-> k]

\* resource identities the caller scaffolds
Identities ==
    { GVK(apps, v1, Foo), GVK(Apps, v1, Bar), GVK(batch, v1, Foo) }

\* resource.Resource: the descriptor handed to the API object
Resources ==
    { [Group |-> id.Group, Version |-> id.Version, Kind |-> id.Kind,
       CreateExampleReconcileBody |-> b] : id \in Identities, b \in BOOLEAN }

\* the identity of a descriptor, as the registry stores it
IdOf(r) == GVK(r.Group, r.Version, r.Kind)

\* config.Version values: Version1, Version2, and one the scaffolder does not know
Version1 == "1"
Version2 == "2"
Versions == {Version1, Version2, "3"}

\* the chain of plugins the caller configures on the API object
Plugins == <<"plugin">>
NoPlugins == <<>>

-----------------------------------------------------------------------------
(* internal/config: the project configuration and its registry.            *)

\* Config.IsV1
IsV1(cfg) == cfg.Version = Version1

\* Config.IsV2
IsV2(cfg) == cfg.Version = Version2

\* Config.HasResource: an entry with the same group, version and kind
HasResource(cfg, r) ==
    \E i \in DOMAIN cfg.Resources : cfg.Resources[i] = IdOf(r)

\* AddResource without the HasResource test: appends whatever is registered
AddResourceAlways(cfg, r) ==
    [added |-> TRUE,
     cfg   |-> [cfg EXCEPT !.Resources = Append(cfg.Resources, IdOf(r))]]

\* Config.AddResource: appends the identity unless it is registered; tells whether it did
AddResource(cfg, r) ==
    IF HasResource(cfg, r)
    THEN [added |-> FALSE, cfg |-> cfg]
    ELSE [added |-> TRUE,
          cfg   |-> [cfg EXCEPT !.Resources = Append(cfg.Resources, IdOf(r))]]

\* Config.ResourceGroups: the distinct groups of the registry
ResourceGroups(cfg) == { cfg.Resources[i].Group : i \in DOMAIN cfg.Resources }

-----------------------------------------------------------------------------
(* Results and trace events.                                               *)

Ok == "ok"

Ret(op, err, valid) == [op |-> op, err |-> err, valid |-> valid]

\* Scaffold() has not returned yet
Running == Ret("Scaffold", "running", FALSE)

\* one step of Scaffold(): what ran, in which phase, whether it returned no error,
\* how many files it wrote, and what it was handed
Event(step, phase, ok, n, a) ==
    [step |-> step, phase |-> phase, ok |-> ok, n |-> n,
     body |-> a.Resource.CreateExampleReconcileBody,
     plugins |-> NoPlugins, wireResource |-> FALSE, wireController |-> FALSE,
     path |-> <<>>]

-----------------------------------------------------------------------------
(* The caller.                                                             *)

\* &API{Resource: r, DoResource: .., DoController: .., Force: .., Plugins: ..}
NewAPIObject(r, doResource, doController, force) ==
    [Plugins |-> Plugins, Resource |-> r, config |-> NilConfig,
     DoResource |-> doResource, DoController |-> doController, Force |-> force]

Init ==
    /\ \E r \in Resources, dr \in BOOLEAN, dc \in BOOLEAN, f \in BOOLEAN :
           api = NewAPIObject(r, dr, dc, f)
    /\ \E v \in Versions, mg \in BOOLEAN :
           store = [Version |-> v, MultiGroup |-> mg, Resources |-> <<>>]
    /\ disk = {}
    /\ pc = "idle"
    /\ trace = <<>>
    /\ result = Ret("none", Ok, FALSE)
    /\ ready = TRUE
    /\ calls = 0

\* a new command: a fresh API object, whose config is loaded on first use
NewAPI ==
    /\ pc = "idle" /\ ~ready /\ calls < MaxCalls
    /\ \E r \in Resources, dr \in BOOLEAN, dc \in BOOLEAN, f \in BOOLEAN :
           api' = NewAPIObject(r, dr, dc, f)
    /\ ready' = TRUE
    /\ trace' = <<>>
    /\ result' = Ret("none", Ok, FALSE)
    /\ UNCHANGED <<store, disk, pc, calls>>

\* the caller sets the public fields of the same API object for another call
Reconfigure ==
    /\ pc = "idle" /\ ~ready /\ calls < MaxCalls
    /\ \E r \in Resources, dr \in BOOLEAN, dc \in BOOLEAN, f \in BOOLEAN :
           api' = [api EXCEPT !.Resource = r, !.DoResource = dr,
                              !.DoController = dc, !.Force = f]
    /\ ready' = TRUE
    /\ trace' = <<>>
    /\ result' = Ret("none", Ok, FALSE)
    /\ UNCHANGED <<store, disk, pc, calls>>

-----------------------------------------------------------------------------
(* API.setDefaults, API.Validate and the checks of API.scaffoldV2.         *)

\* setDefaults: loads the configuration when the object holds none; loadOK is
\* whether config.Load() succeeds
SetDefaults(a, loadOK) ==
    IF a.config = NilConfig
    THEN IF loadOK
         THEN [err |-> Ok, api |-> [a EXCEPT !.config = store]]
         ELSE [err |-> "load", api |-> a]
    ELSE [err |-> Ok, api |-> a]

\* Validate with the Force test dropped
ValidateChecksIgnoringForce(a, valid) ==
    IF ~valid THEN Ret("Validate", "invalid", FALSE)
    ELSE IF HasResource(a.config, a.Resource)
         THEN Ret("Validate", "exists", TRUE)
         ELSE Ret("Validate", Ok, TRUE)

\* Validate after setDefaults: valid is whether api.Resource.Validate() returns nil
ValidateChecks(a, valid) ==
    IF ~valid THEN Ret("Validate", "invalid", FALSE)
    ELSE IF HasResource(a.config, a.Resource) /\ ~a.Force
         THEN Ret("Validate", "exists", TRUE)
         ELSE Ret("Validate", Ok, TRUE)

Validate ==
    /\ pc = "idle" /\ ready
    /\ \E loadOK \in BOOLEAN, valid \in BOOLEAN :
           LET d == SetDefaults(api, loadOK) IN
           /\ api' = d.api
           /\ result' = IF d.err # Ok THEN Ret("Validate", d.err, FALSE)
                        ELSE ValidateChecks(d.api, valid)
    /\ UNCHANGED <<store, disk, pc, trace, ready, calls>>

\* isGroupAllowed with the MultiGroup test dropped
IsGroupAllowedSingleOnly(a, r) ==
    \A existingGroup \in ResourceGroups(a.config) : EqualFold(r.Group, existingGroup)

\* isGroupAllowed
IsGroupAllowed(a, r) ==
    IF a.config.MultiGroup THEN TRUE
    ELSE \A existingGroup \in ResourceGroups(a.config) : EqualFold(r.Group, existingGroup)

\* validateResourceGroup with the group test dropped
ValidateResourceGroupDuplicateOnly(a, r) ==
    IF HasResource(a.config, a.Resource) /\ ~a.Force THEN "exists" ELSE Ok

\* validateResourceGroup with the test for an existing resource dropped
ValidateResourceGroupGroupOnly(a, r) ==
    IF ~IsGroupAllowed(a, r) THEN "group" ELSE Ok

\* validateResourceGroup: the error it returns, Ok for nil
ValidateResourceGroup(a, r) ==
    IF HasResource(a.config, a.Resource) /\ ~a.Force THEN "exists"
    ELSE IF ~IsGroupAllowed(a, r) THEN "group"
    ELSE Ok

-----------------------------------------------------------------------------
(* Steps shared by the pipelines.                                          *)

\* Scaffold() returns err
Return(err) ==
    /\ pc' = "idle"
    /\ result' = Ret("Scaffold", err, FALSE)

Continue(next) ==
    /\ pc' = next
    /\ UNCHANGED result

\* buildUniverse with its error dropped: the pipeline goes on
BuildUniverseIgnoringError(at, phase, next) ==
    /\ pc = at
    /\ \E ok \in BOOLEAN :
           /\ trace' = Append(trace, Event("buildUniverse", phase, ok, 0, api))
           /\ Continue(next)
    /\ UNCHANGED <<api, store, disk, ready, calls>>

\* api.buildUniverse(r): model.NewUniverse may return an error
BuildUniverse(at, phase, next) ==
    /\ pc = at
    /\ \E ok \in BOOLEAN :
           /\ trace' = Append(trace, Event("buildUniverse", phase, ok, 0, api))
           /\ IF ok THEN Continue(next) ELSE Return("universe")
    /\ UNCHANGED <<api, store, disk, ready, calls>>

\* filepath.Join(elems...): the elements separated by "/"
RECURSIVE Join(_)
Join(elems) ==
    IF Len(elems) = 0 THEN <<>>
    ELSE IF Len(elems) = 1 THEN elems[1]
    ELSE elems[1] \o <<"/">> \o Join(Tail(elems))

\* fmt.Sprintf("%s_types.go", s) and fmt.Sprintf("%s_controller.go", s)
TypesFile(s) == s \o <<"_", "t", "y", "p", "e", "s", ".", "g", "o">>
ControllerFile(s) == s \o <<"_", "c", "o", "n", "t", "r", "o", "l", "l", "e", "r", ".", "g", "o">>

\* the types path with the multi-group layout never used
TypesPathSingleGroup(multiGroup, r) ==
    Join(<<<<"a", "p", "i">>, r.Version, TypesFile(ToLower(r.Kind))>>)

\* the path of the types file of resource r in a v2 project
TypesPath(multiGroup, r) ==
    IF multiGroup
    THEN Join(<<<<"a", "p", "i", "s">>, r.Group, r.Version, TypesFile(ToLower(r.Kind))>>)
    ELSE Join(<<<<"a", "p", "i">>, r.Version, TypesFile(ToLower(r.Kind))>>)

\* the path of the controller of resource r that a v2 call reports
ControllerPath(multiGroup, r) ==
    IF multiGroup
    THEN Join(<<<<"c", "o", "n", "t", "r", "o", "l", "l", "e", "r", "s">>,
                r.Group \o <<"/">> \o ControllerFile(ToLower(r.Kind))>>)
    ELSE Join(<<<<"c", "o", "n", "t", "r", "o", "l", "l", "e", "r", "s">>, ControllerFile(ToLower(r.Kind))>>)

\* fmt.Println(path)
Println(phase, path, a) == [Event("Println", phase, TRUE, 0, a) EXCEPT !.path = path]

\* the files Execute has written when it stops after n of its tasks
Written(tasks, n, r) == { <<tasks[i], IdOf(r)>> : i \in 1..n }

\* how many tasks an Execute run completes: it fails at its second task, the
\* first one written, or completes them all
Stops(tasks) == {1, Len(tasks)}

\* (&Scaffold{Plugins: plugins}).Execute(universe, input.Options{}, tasks...):
\* the tasks run in order; the first one that fails ends the run
Execute(at, phase, tasks, plugins, next) ==
    /\ pc = at
    /\ \E n \in Stops(tasks) :
           /\ disk' = disk \cup Written(tasks, n, api.Resource)
           /\ trace' = Append(trace,
                  [Event("Execute", phase, n = Len(tasks), n, api) EXCEPT !.plugins = plugins])
           /\ IF n = Len(tasks) THEN Continue(next) ELSE Return("execute")
    /\ UNCHANGED <<api, store, ready, calls>>

\* an in-place Update() of a generated file: inserts the lines for the resource once
Update(at, file, next) ==
    /\ pc = at
    /\ \E ok \in BOOLEAN :
           /\ trace' = Append(trace, Event("Update", file, ok, 0, api))
           /\ disk' = IF ok THEN disk \cup {<<file, IdOf(api.Resource)>>} ELSE disk
           /\ IF ok THEN Continue(next) ELSE Return("update")
    /\ UNCHANGED <<api, store, ready, calls>>

\* the else branch with the assignment dropped
KeepExampleBody(a) == a

\* r.CreateExampleReconcileBody = false, r being api.Resource
ClearExampleBody(a) == [a EXCEPT !.Resource.CreateExampleReconcileBody = FALSE]

-----------------------------------------------------------------------------
(* API.Scaffold: setDefaults, then the dispatch on the configuration version *)

\* the switch with v2 as its default case
DispatchDefaultV2(cfg) ==
    IF IsV1(cfg) THEN "v1" ELSE "v2"

\* the switch of Scaffold(): the pipeline entered, or the error returned
Dispatch(cfg) ==
    IF IsV1(cfg) THEN "v1"
    ELSE IF IsV2(cfg) THEN "v2"
    ELSE "unknown version"

Scaffold ==
    /\ pc = "idle" /\ ready /\ calls < MaxCalls
    /\ calls' = calls + 1
    /\ ready' = FALSE
    /\ \E loadOK \in BOOLEAN :
           LET d == SetDefaults(api, loadOK)
               e == Event("setDefaults", "entry", d.err = Ok, 0, api)
           IN  /\ api' = d.api
               /\ IF d.err # Ok
                  THEN trace' = <<e>> /\ Return(d.err)
                  ELSE LET to == Dispatch(d.api.config) IN
                       IF to \in {"v1", "v2"}
                       THEN /\ trace' = <<e, Event("dispatch", to, TRUE, 0, api)>>
                            /\ pc' = to
                            /\ result' = Running
                       ELSE /\ trace' = <<e>>
                            /\ Return(to)
    /\ UNCHANGED <<store, disk>>

-----------------------------------------------------------------------------
(* API.scaffoldV1                                                          *)

V1ResourceTasks ==
    <<"v1.Register", "v1.Types", "v1.VersionSuiteTest", "v1.TypesTest",
      "v1.Doc", "v1.Group", "v1.AddToScheme", "v1.CRDSample">>

V1ControllerTasks ==
    <<"v1.Controller", "v1.AddController", "v1.Test", "v1.SuiteTest">>

\* if api.DoResource { ... } else { r.CreateExampleReconcileBody = false }
V1Begin ==
    /\ pc = "v1"
    /\ IF api.DoResource
       THEN api' = api /\ pc' = "v1_resource"
       ELSE api' = ClearExampleBody(api) /\ pc' = "v1_controller"
    /\ UNCHANGED <<store, disk, trace, result, ready, calls>>

V1ResourceUniverse == BuildUniverse("v1_resource", "resource", "v1_resource_exec")

\* the v1 resource run followed by the kustomization step of v2
V1ResourceExecuteThenKustomization ==
    Execute("v1_resource_exec", "resource", V1ResourceTasks, NoPlugins, "v2_kustomization")

V1ResourceExecute ==
    Execute("v1_resource_exec", "resource", V1ResourceTasks, NoPlugins, "v1_controller")

\* if api.DoController { ... }; return nil
V1Controller ==
    /\ pc = "v1_controller"
    /\ IF api.DoController
       THEN Continue("v1_controller_universe")
       ELSE Return(Ok)
    /\ UNCHANGED <<api, store, disk, trace, ready, calls>>

V1ControllerUniverse ==
    BuildUniverse("v1_controller_universe", "controller", "v1_controller_exec")

V1ControllerExecute ==
    Execute("v1_controller_exec", "controller", V1ControllerTasks, NoPlugins, "v1_return")

V1Return ==
    /\ pc = "v1_return"
    /\ Return(Ok)
    /\ UNCHANGED <<api, store, disk, trace, ready, calls>>

-----------------------------------------------------------------------------
(* API.scaffoldV2                                                          *)

V2ResourceTasks ==
    <<"Types", "Group", "CRDSample", "CRDEditorRole", "CRDViewerRole",
      "EnableWebhookPatch", "EnableCAInjectionPatch">>

V2KustomizationTasks == <<"Kustomization", "KustomizeConfig">>

V2ControllerTasks == <<"SuiteTest", "Controller">>

\* if api.DoResource { validateResourceGroup ... } else { r.CreateExampleReconcileBody = false }
V2Begin ==
    /\ pc = "v2"
    /\ IF api.DoResource
       THEN LET err == ValidateResourceGroup(api, api.Resource) IN
            /\ api' = api
            /\ trace' = Append(trace, Event("validateResourceGroup", "resource", err = Ok, 0, api))
            /\ IF err = Ok THEN Continue("v2_add") ELSE Return(err)
       ELSE /\ api' = ClearExampleBody(api)
            /\ trace' = trace
            /\ Continue("v2_controller")
    /\ UNCHANGED <<store, disk, ready, calls>>

\* api.config.AddResource(api.Resource)
Register(a) == AddResource(a.config, a.Resource)

\* the registration with the Save() left out
V2AddResourceNoSave ==
    /\ pc = "v2_add"
    /\ LET ar == Register(api) IN
       /\ api' = [api EXCEPT !.config = ar.cfg]
       /\ trace' = Append(trace, Event("AddResource", "resource", ar.added, 0, api))
       /\ pc' = "v2_resource"
    /\ UNCHANGED <<store, disk, result, ready, calls>>

\* the registration with the Save() made whether or not the resource was added
V2AddResourceAlwaysSave ==
    /\ pc = "v2_add"
    /\ LET ar == Register(api) IN
       /\ api' = [api EXCEPT !.config = ar.cfg]
       /\ trace' = Append(trace, Event("AddResource", "resource", ar.added, 0, api))
       /\ pc' = "v2_save"
    /\ UNCHANGED <<store, disk, result, ready, calls>>

\* if api.config.AddResource(api.Resource) { Save ... }
V2AddResource ==
    /\ pc = "v2_add"
    /\ LET ar == Register(api) IN
       /\ api' = [api EXCEPT !.config = ar.cfg]
       /\ trace' = Append(trace, Event("AddResource", "resource", ar.added, 0, api))
       /\ pc' = IF ar.added THEN "v2_save" ELSE "v2_resource"
    /\ UNCHANGED <<store, disk, result, ready, calls>>

\* scaffoldV2 with the error of Save() dropped
AfterSaveIgnoringError(ok) == "v2_resource"

\* where scaffoldV2 goes after api.config.Save(): on, or out with the error
AfterSave(ok) == IF ok THEN "v2_resource" ELSE "return"

\* api.config.Save(): writes the configuration of the object to the project file
V2Save ==
    /\ pc = "v2_save"
    /\ \E ok \in BOOLEAN :
           /\ store' = IF ok THEN api.config ELSE store
           /\ trace' = Append(trace, Event("Save", "resource", ok, 0, api))
           /\ IF AfterSave(ok) = "return"
              THEN Return("save")
              ELSE Continue(AfterSave(ok))
    /\ UNCHANGED <<api, disk, ready, calls>>

\* the path of the types file, printed and handed to the Types task as its Input.Path
V2TypesPath ==
    /\ pc = "v2_resource"
    /\ trace' = Append(trace,
           Println("resource", TypesPath(api.config.MultiGroup, api.Resource), api))
    /\ pc' = "v2_resource_universe"
    /\ UNCHANGED <<api, store, disk, result, ready, calls>>

V2ResourceUniverse ==
    BuildUniverse("v2_resource_universe", "resource", "v2_resource_exec")

V2ResourceExecute ==
    Execute("v2_resource_exec", "resource", V2ResourceTasks, api.Plugins, "v2_kustomization")

V2KustomizationUniverse ==
    BuildUniverse("v2_kustomization", "kustomization", "v2_kustomization_exec")

\* the kustomization run with the update of the kustomization manifest left out
V2KustomizationExecuteNoUpdate ==
    Execute("v2_kustomization_exec", "kustomization", V2KustomizationTasks, NoPlugins,
            "v2_controller")

V2KustomizationExecute ==
    Execute("v2_kustomization_exec", "kustomization", V2KustomizationTasks, NoPlugins,
            "v2_kustomization_update")

\* crdKustomization.Update()
V2KustomizationUpdate ==
    Update("v2_kustomization_update", "kustomization.yaml", "v2_controller")

\* the controller block run when the resource was scaffolded, not when asked for
V2ControllerIfResource ==
    /\ pc = "v2_controller"
    /\ IF api.DoResource
       THEN /\ trace' = Append(trace,
                   Println("controller", ControllerPath(api.config.MultiGroup, api.Resource), api))
            /\ pc' = "v2_controller_universe"
       ELSE /\ trace' = trace
            /\ pc' = "v2_main"
    /\ UNCHANGED <<api, store, disk, result, ready, calls>>

\* if api.DoController { fmt.Println(<controller path>) ... }
V2Controller ==
    /\ pc = "v2_controller"
    /\ IF api.DoController
       THEN /\ trace' = Append(trace,
                   Println("controller", ControllerPath(api.config.MultiGroup, api.Resource), api))
            /\ pc' = "v2_controller_universe"
       ELSE /\ trace' = trace
            /\ pc' = "v2_main"
    /\ UNCHANGED <<api, store, disk, result, ready, calls>>

V2ControllerUniverse ==
    BuildUniverse("v2_controller_universe", "controller", "v2_controller_exec")

V2ControllerExecute ==
    Execute("v2_controller_exec", "controller", V2ControllerTasks, api.Plugins,
            "v2_suite_update")

\* testsuiteScaffolder.Update()
V2SuiteTestUpdate == Update("v2_suite_update", "suite_test.go", "v2_main")

\* what Main.Update inserts into main.go for the resource
MainWiring(a) ==
    (IF a.DoResource THEN {<<"main.go:scheme", IdOf(a.Resource)>>} ELSE {})
    \cup (IF a.DoController THEN {<<"main.go:controller", IdOf(a.Resource)>>} ELSE {})

\* MainUpdateOptions with the two flags crossed
MainUpdateOptionsCrossed(a) ==
    [WireResource |-> a.DoController, WireController |-> a.DoResource]

\* the MainUpdateOptions scaffoldV2 passes
MainUpdateOptions(a) ==
    [WireResource |-> a.DoResource, WireController |-> a.DoController]

\* (&scaffoldv2.Main{}).Update(...); return nil
V2MainUpdate ==
    /\ pc = "v2_main"
    /\ \E ok \in BOOLEAN :
           /\ trace' = Append(trace,
                  [Event("Update", "main.go", ok, 0, api) EXCEPT
                      !.wireResource = MainUpdateOptions(api).WireResource,
                      !.wireController = MainUpdateOptions(api).WireController])
           /\ disk' = IF ok THEN disk \cup MainWiring(api) ELSE disk
           /\ IF ok THEN Return(Ok) ELSE Return("update")
    /\ UNCHANGED <<api, store, ready, calls>>

-----------------------------------------------------------------------------

Next ==
    \/ NewAPI
    \/ Reconfigure
    \/ Validate
    \/ Scaffold
    \/ V1Begin
    \/ V1ResourceUniverse
    \/ V1ResourceExecute
    \/ V1Controller
    \/ V1ControllerUniverse
    \/ V1ControllerExecute
    \/ V1Return
    \/ V2Begin
    \/ V2AddResource
    \/ V2Save
    \/ V2TypesPath
    \/ V2ResourceUniverse
    \/ V2ResourceExecute
    \/ V2KustomizationUniverse
    \/ V2KustomizationExecute
    \/ V2KustomizationUpdate
    \/ V2Controller
    \/ V2ControllerUniverse
    \/ V2ControllerExecute
    \/ V2SuiteTestUpdate
    \/ V2MainUpdate

Spec == Init /\ [][Next]_vars

-----------------------------------------------------------------------------
(* Properties.                                                             *)

\* the identity is an entry of the registry of cfg
Registered(cfg, id) == \E i \in DOMAIN cfg.Resources : cfg.Resources[i] = id

\* how many entries of the registry of cfg are the identity
Count(cfg, id) == Cardinality({ i \in DOMAIN cfg.Resources : cfg.Resources[i] = id })

\* the positions of the trace where step ran in phase
Ran(step, phase) ==
    { i \in DOMAIN trace : trace[i].step = step /\ trace[i].phase = phase }

\* the running or last Scaffold() call went into the v1 / the v2 pipeline
InV1Call == Len(trace) >= 2 /\ trace[2].step = "dispatch" /\ trace[2].phase = "v1"
InV2Call == Len(trace) >= 2 /\ trace[2].step = "dispatch" /\ trace[2].phase = "v2"

\* Scaffold() has returned err
Returned(err) == pc = "idle" /\ result.op = "Scaffold" /\ result.err = err

\* the files of the resource phase of either pipeline
ResourceFiles(id) ==
    { f \in disk : f[2] = id /\ \E i \in DOMAIN V2ResourceTasks : f[1] = V2ResourceTasks[i] }

\* the two group names differ in more than the case of their letters
DiffersBeyondCase(g, h) == ToLower(g) # ToLower(h)

\* C1: Validate() on a resource that passes identity validation returns the
\* resource-exists error when the resource is in the registry and Force is
\* false, no error when it is in the registry and Force is true, and no error
\* when it is not in the registry, whatever Force is.
C1_ValidateRegistered ==
    (result.op = "Validate" /\ result.valid) =>
        LET inRegistry == Registered(api.config, IdOf(api.Resource)) IN
        /\ (inRegistry /\ ~api.Force) => result.err = "exists"
        /\ (inRegistry /\ api.Force) => result.err = Ok
        /\ ~inRegistry => result.err = Ok

C1_Witness ==
    /\ result.op = "Validate" /\ result.valid
    /\ Registered(api.config, IdOf(api.Resource))
    /\ ~api.Force
    /\ result.err = "exists"

\* C2: in a v2 Scaffold() call that registers a new resource, every run of the
\* resource tasks (and every later step) comes after a Save() that succeeded,
\* and the persisted configuration then holds the resource.
C2_SaveBeforeResourceFiles ==
    \A j \in Ran("AddResource", "resource") :
        \A i \in DOMAIN trace :
            (trace[j].ok /\ i > j /\ trace[i].step \in {"buildUniverse", "Execute", "Update"}) =>
                /\ \E k \in Ran("Save", "resource") : j < k /\ k < i /\ trace[k].ok
                /\ Registered(store, IdOf(api.Resource))

C2_Witness ==
    /\ InV2Call
    /\ \E j \in Ran("AddResource", "resource") : trace[j].ok
    /\ \E k \in Ran("Save", "resource") : trace[k].ok
    /\ \E i \in Ran("Execute", "resource") : trace[i].n = Len(V2ResourceTasks)

\* C3: on a v2 project no state has resource files of a resource on disk while
\* the resource is absent from the persisted project configuration.
C3_NoFilesWithoutRegistration ==
    IsV2(store) =>
        \A id \in Identities :
            ResourceFiles(id) # {} => Registered(store, id)

\* C4: the registry never holds two entries for the same group, version and
\* kind, neither in memory nor persisted, and once a v2 Scaffold() call with
\* DoResource has passed its registration step the registry holds the
\* resource exactly once.
C4_RegisteredExactlyOnce ==
    /\ \A id \in Identities : Count(api.config, id) <= 1 /\ Count(store, id) <= 1
    /\ Ran("AddResource", "resource") # {} => Count(api.config, IdOf(api.Resource)) = 1

C4_Witness ==
    /\ calls = 2
    /\ api.Force
    /\ \E j \in Ran("AddResource", "resource") : ~trace[j].ok
    /\ Count(store, IdOf(api.Resource)) = 1
    /\ Returned(Ok)

\* the state right after validateResourceGroup ran: the registry is still the
\* one it read
AfterGroupCheck == Len(trace) = 3 /\ trace[3].step = "validateResourceGroup"

\* C5: in v2 Scaffold() with DoResource, when MultiGroup is false and the
\* registry holds a group that differs from the group of the resource (in more
\* than letter case, as "batch" from "apps"), the call fails with the
\* group-conflict error; when MultiGroup is true no group is ever rejected,
\* and every resource that is new or forced is accepted, also on an empty
\* registry.
C5_GroupAcceptance ==
    AfterGroupCheck =>
        /\ ( /\ ~api.config.MultiGroup
             /\ \E g \in ResourceGroups(api.config) : DiffersBeyondCase(g, api.Resource.Group) )
               => Returned("group")
        /\ api.config.MultiGroup => ~Returned("group")
        /\ ( /\ api.config.MultiGroup
             /\ (api.Force \/ ~Registered(api.config, IdOf(api.Resource))) )
               => (trace[3].ok /\ pc = "v2_add")

C5_Witness ==
    /\ AfterGroupCheck
    /\ ~api.config.MultiGroup
    /\ apps \in ResourceGroups(api.config)
    /\ api.Resource.Group = batch
    /\ Returned("group")

\* the steps that render, write, update in place or change the registry
Effects == {"buildUniverse", "Execute", "Update", "AddResource", "Save"}

\* MultiGroup is false and the group of the resource differs from a group
\* registered in the project file
GroupConflict ==
    /\ ~store.MultiGroup
    /\ \E g \in ResourceGroups(store) : DiffersBeyondCase(g, api.Resource.Group)

\* what C6 says of a call: nothing rendered, written or registered, and the
\* group-conflict error returned
RejectedForGroup ==
    /\ \A i \in DOMAIN trace : trace[i].step \notin Effects
    /\ pc # "idle" \/ Returned("group")
    /\ pc \in {"idle", "v2"}

\* C6 as stated: a v2 Scaffold() call whose resource has a group that differs
\* from the registered groups, MultiGroup being false, fails with the
\* group-conflict error before anything is rendered, written or registered,
\* for every combination of DoResource and DoController.
C6_Original == (InV2Call /\ GroupConflict) => RejectedForGroup

\* C6 amended: the same for the calls with DoResource true.
C6_GroupConflictFirst == (InV2Call /\ GroupConflict /\ api.DoResource) => RejectedForGroup

C6_Witness ==
    /\ InV2Call /\ GroupConflict /\ api.DoResource /\ api.DoController
    /\ Returned("group")
    /\ Len(trace) = 3

\* C7: with MultiGroup false, all resources registered in the project file
\* have one and the same Group string.
C7_SingleGroup ==
    ~store.MultiGroup => Cardinality(ResourceGroups(store)) <= 1

\* the names of the tasks of the v1 and of the v2 pipeline
V1Names == { V1ResourceTasks[i] : i \in DOMAIN V1ResourceTasks }
               \cup { V1ControllerTasks[i] : i \in DOMAIN V1ControllerTasks }

\* the positions of the v1 and of the v2 pipeline
V1Positions == {"v1", "v1_resource", "v1_resource_exec", "v1_controller",
                "v1_controller_universe", "v1_controller_exec", "v1_return"}

\* C8: once the configuration is resolved, Scaffold() runs the v1 pipeline
\* exactly when the version is v1 and the v2 pipeline exactly when it is v2;
\* for any other version it returns the unsupported-version error with no
\* step run: nothing on disk, the registry and the project file unchanged.
C8_VersionDispatch ==
    /\ (trace # <<>> /\ trace[1].ok) =>
          /\ InV1Call <=> IsV1(api.config)
          /\ InV2Call <=> IsV2(api.config)
          /\ (~IsV1(api.config) /\ ~IsV2(api.config)) =>
                (Returned("unknown version") /\ Len(trace) = 1)
    /\ pc # "idle" => (pc \in V1Positions <=> IsV1(store))
    /\ \A f \in disk : f[1] \in V1Names <=> IsV1(store)
    /\ (~IsV1(store) /\ ~IsV2(store)) =>
          (disk = {} /\ store.Resources = <<>> /\ api.config.Resources = <<>>)

C8_Witness ==
    /\ Returned("unknown version")
    /\ store.Version = "3"
    /\ calls = 2

\* C9: in both pipelines, when DoResource is false the descriptor's
\* CreateExampleReconcileBody is false when the controller universe is built
\* and when the controller tasks run, whatever it was on entry.
C9_CycleGuard ==
    ~api.DoResource =>
        \A i \in Ran("buildUniverse", "controller") \cup Ran("Execute", "controller") :
            ~trace[i].body

C9_Witness ==
    /\ ~api.DoResource
    /\ trace # <<>> /\ trace[1].body
    /\ InV1Call
    /\ \E i \in Ran("Execute", "controller") : trace[i].ok /\ ~trace[i].body

\* the last step of the call is the update of main.go, and it is the only one
MainUpdatedLast ==
    /\ trace # <<>>
    /\ Ran("Update", "main.go") = {Len(trace)}
    /\ trace[Len(trace)].ok
    /\ trace[Len(trace)].wireResource = api.DoResource
    /\ trace[Len(trace)].wireController = api.DoController
    /\ (api.DoResource => <<"main.go:scheme", IdOf(api.Resource)>> \in disk)
    /\ (api.DoController => <<"main.go:controller", IdOf(api.Resource)>> \in disk)

\* C10 as stated: every successful Scaffold() call, of any configuration
\* version, ends with the update of main.go, with WireResource = DoResource
\* and WireController = DoController.
C10_Original == Returned(Ok) => MainUpdatedLast

\* C10 amended: every successful Scaffold() call on a v2 project does, and
\* the v1 pipeline never updates main.go.
C10_MainUpdatedLast ==
    /\ (Returned(Ok) /\ IsV2(api.config)) => MainUpdatedLast
    /\ InV1Call => Ran("Update", "main.go") = {}

C10_Witness ==
    /\ Returned(Ok) /\ IsV2(api.config)
    /\ api.DoResource /\ ~api.DoController
    /\ Ran("Update", "kustomization.yaml") # {}

\* the step at position i of the trace returned an error (the ok of AddResource
\* is whether it added, not an error)
Failed(i) == trace[i].step # "AddResource" /\ ~trace[i].ok

\* the tasks of the Execute run at position i of the trace
TasksAt(i) ==
    IF InV1Call
    THEN (IF trace[i].phase = "resource" THEN V1ResourceTasks ELSE V1ControllerTasks)
    ELSE (IF trace[i].phase = "resource" THEN V2ResourceTasks
          ELSE IF trace[i].phase = "kustomization" THEN V2KustomizationTasks
          ELSE V2ControllerTasks)

\* what the step at position i of the trace did is still there
EffectKept(i) ==
    LET e == trace[i]  id == IdOf(api.Resource) IN
    /\ e.step = "Execute" => \A k \in 1..e.n : <<TasksAt(i)[k], id>> \in disk
    /\ (e.step = "Update" /\ e.ok /\ e.phase # "main.go") => <<e.phase, id>> \in disk
    /\ (e.step = "Update" /\ e.ok /\ e.phase = "main.go" /\ e.wireResource) =>
           <<"main.go:scheme", id>> \in disk
    /\ (e.step = "Update" /\ e.ok /\ e.phase = "main.go" /\ e.wireController) =>
           <<"main.go:controller", id>> \in disk
    /\ (e.step = "Save" /\ e.ok) => Registered(store, id)
    /\ (e.step = "AddResource" /\ e.ok) => Registered(api.config, id)

\* C11: in any Scaffold() call a step that returns an error is the last step
\* of the call, the call then returns an error, and what the steps before it
\* did (files written, in-place updates, registration, Save) is kept.
C11_AbortOnFirstError ==
    /\ \A i \in DOMAIN trace :
           Failed(i) =>
               /\ i = Len(trace)
               /\ pc = "idle"
               /\ result.op = "Scaffold"
               /\ result.err \notin {Ok, "running"}
    /\ \A i \in DOMAIN trace : EffectKept(i)

C11_Witness ==
    /\ Returned("update")
    /\ Failed(Len(trace))
    /\ trace[Len(trace)].phase = "kustomization.yaml"
    /\ \E i \in Ran("Execute", "kustomization") : trace[i].n = Len(V2KustomizationTasks)
    /\ \E j \in Ran("Save", "resource") : trace[j].ok

\* the positions of the trace where the in-memory configuration was mutated
\* (AddResource added the resource) and where Save() was invoked
Mutations == { i \in Ran("AddResource", "resource") : trace[i].ok }
Saves == Ran("Save", "resource")

\* C12 as stated: a Scaffold() call mutates the in-memory configuration
\* exactly once and saves it exactly once.
C12_Original ==
    Returned(Ok) => (Cardinality(Mutations) = 1 /\ Cardinality(Saves) = 1)

\* C12 amended: a Scaffold() call mutates the in-memory configuration at most
\* once and saves it at most once; Save() is the step right after the
\* mutation and is made for every mutation; a v1 call and a call with
\* DoResource false do neither.
C12_AtMostOnce ==
    /\ Cardinality(Mutations) <= 1
    /\ Cardinality(Saves) <= 1
    /\ \A k \in Saves : (k - 1) \in Mutations
    /\ pc # "v2_save" => \A j \in Mutations : (j + 1) \in Saves
    /\ (trace # <<>> /\ (~IsV2(api.config) \/ ~api.DoResource)) =>
           (Mutations = {} /\ Saves = {})

C12_Witness ==
    /\ Returned(Ok)
    /\ Cardinality(Mutations) = 1
    /\ Cardinality(Saves) = 1
    /\ api.DoController

\* C13: once a Scaffold() call has returned, with or without an error, a
\* resource is in the in-memory registry of the API object only if it is in
\* the persisted configuration.
C13_InMemoryOnlyIfPersisted ==
    (pc = "idle" /\ result.op = "Scaffold") =>
        \A id \in Identities : Registered(api.config, id) => Registered(store, id)

\* the runs of the controller tasks in the call
ControllerRuns == Ran("Execute", "controller")

\* C14: the controller tasks run only when DoController is true, and in a
\* call that gets past the controller block without an error they have run
\* exactly when DoController is true, whatever DoResource is and whether or
\* not the resource is registered.
C14_ControllerIffRequested ==
    /\ ControllerRuns # {} => api.DoController
    /\ pc \in {"v1_controller_universe", "v1_controller_exec", "v1_return",
               "v2_controller_universe", "v2_controller_exec", "v2_suite_update"}
           => api.DoController
    /\ (pc = "v2_main" \/ Returned(Ok)) => (ControllerRuns # {} <=> api.DoController)

C14_Witness ==
    /\ Returned(Ok)
    /\ InV2Call
    /\ ~api.DoResource /\ api.DoController
    /\ \E i \in ControllerRuns : trace[i].ok
    /\ ~Registered(store, IdOf(api.Resource))
    /\ ~Registered(api.config, IdOf(api.Resource))

\* C15: every Execute run of a Scaffold() call, in the v1 pipeline and in each
\* phase of the v2 pipeline, carries the plugin chain configured on the API.
C15_PluginsOnEveryRun ==
    \A i \in DOMAIN trace :
        trace[i].step = "Execute" => trace[i].plugins = api.Plugins

\* the lower-case spelling of the kinds of the inputs
KindLower(kind) == IF kind = Foo THEN <<"f", "o", "o">> ELSE <<"b", "a", "r">>

\* the paths the layout of a v2 project prescribes, from Kind, Group, Version
\* and MultiGroup alone
ExpectedTypesPath(multiGroup, r) ==
    IF multiGroup
    THEN <<"a", "p", "i", "s", "/">> \o r.Group \o <<"/">> \o r.Version \o <<"/">>
             \o KindLower(r.Kind) \o <<"_", "t", "y", "p", "e", "s", ".", "g", "o">>
    ELSE <<"a", "p", "i", "/">> \o r.Version \o <<"/">>
             \o KindLower(r.Kind) \o <<"_", "t", "y", "p", "e", "s", ".", "g", "o">>

ExpectedControllerPath(multiGroup, r) ==
    IF multiGroup
    THEN <<"c", "o", "n", "t", "r", "o", "l", "l", "e", "r", "s", "/">> \o r.Group \o <<"/">>
             \o KindLower(r.Kind) \o <<"_", "c", "o", "n", "t", "r", "o", "l", "l", "e", "r", ".", "g", "o">>
    ELSE <<"c", "o", "n", "t", "r", "o", "l", "l", "e", "r", "s", "/">> \o KindLower(r.Kind) \o <<"_", "c", "o", "n", "t", "r", "o", "l", "l", "e", "r", ".", "g", "o">>

\* C16: in a v2 call the types path is api/<version>/<kind-lower>_types.go in
\* a single-group project and apis/<group>/<version>/<kind-lower>_types.go in
\* a multi-group one, the reported controller path is
\* controllers/<kind-lower>_controller.go or
\* controllers/<group>/<kind-lower>_controller.go, and both depend on Kind,
\* Group, Version and MultiGroup only.
C16_PathDerivation ==
    /\ \A i \in Ran("Println", "resource") :
           trace[i].path = ExpectedTypesPath(api.config.MultiGroup, IdOf(api.Resource))
    /\ \A i \in Ran("Println", "controller") :
           trace[i].path = ExpectedControllerPath(api.config.MultiGroup, IdOf(api.Resource))

C16_Witness ==
    /\ Returned(Ok)
    /\ api.config.MultiGroup
    /\ api.Resource.Group = Apps
    /\ api.Force
    /\ Ran("Println", "resource") # {}
    /\ Ran("Println", "controller") # {}

\* the Execute runs and in-place updates of the call, in the order they ran
Runs ==
    LET steps == [i \in DOMAIN trace |-> <<trace[i].step, trace[i].phase>>] IN
    SelectSeq(steps, LAMBDA s : s[1] \in {"Execute", "Update"})

\* the order of the runs and updates of a v2 call with both flags set
V2Order ==
    << <<"Execute", "resource">>,
       <<"Execute", "kustomization">>, <<"Update", "kustomization.yaml">>,
       <<"Execute", "controller">>, <<"Update", "suite_test.go">>,
       <<"Update", "main.go">> >>

IsPrefix(s, t) == Len(s) <= Len(t) /\ SubSeq(t, 1, Len(s)) = s

\* C17: in a v2 call with DoResource and DoController both true the resource
\* tasks run in the order Types, Group, CRDSample, CRDEditorRole,
\* CRDViewerRole, EnableWebhookPatch, EnableCAInjectionPatch, then the
\* kustomization tasks are executed and after that the kustomization manifest
\* is updated, then the controller tasks (suite test, controller) are executed
\* and after that the suite test file is updated, then the entry-point file
\* is updated; a successful call has run all of them, each run completing
\* every one of its tasks.
C17_V2PhaseOrder ==
    (InV2Call /\ api.DoResource /\ api.DoController) =>
        /\ IsPrefix(Runs, V2Order)
        /\ Returned(Ok) =>
               /\ Runs = V2Order
               /\ \A i \in DOMAIN trace :
                      trace[i].step = "Execute" => trace[i].n = Len(TasksAt(i))
        /\ V2ResourceTasks = <<"Types", "Group", "CRDSample", "CRDEditorRole",
                               "CRDViewerRole", "EnableWebhookPatch",
                               "EnableCAInjectionPatch">>
        /\ V2KustomizationTasks = <<"Kustomization", "KustomizeConfig">>
        /\ V2ControllerTasks = <<"SuiteTest", "Controller">>

C17_Witness ==
    /\ Returned(Ok)
    /\ InV2Call /\ api.DoResource /\ api.DoController
    /\ Runs = V2Order
    /\ \A t \in DOMAIN V2ResourceTasks : <<V2ResourceTasks[t], IdOf(api.Resource)>> \in disk

\* what the kustomization step writes
KustomizationFiles == { V2KustomizationTasks[t] : t \in DOMAIN V2KustomizationTasks }
                          \cup {"kustomization.yaml"}

\* C18: a v1 Scaffold() call, with any flags, makes no registration and no
\* Save(), runs no kustomization task and no in-place update, and leaves the
\* registry as it was, in the object and in the project file.
C18_V1NoKustomizationNoPersistence ==
    /\ InV1Call =>
           /\ \A i \in DOMAIN trace :
                  /\ trace[i].step \notin {"AddResource", "Save", "Update", "validateResourceGroup"}
                  /\ trace[i].phase # "kustomization"
           /\ api.config = store
    /\ IsV1(store) =>
           /\ store.Resources = <<>>
           /\ \A f \in disk : f[1] \notin KustomizationFiles

C18_Witness ==
    /\ calls = 2
    /\ Returned(Ok)
    /\ InV1Call
    /\ api.DoResource /\ api.DoController /\ api.Force
    /\ \E i \in Ran("Execute", "resource") : trace[i].ok
    /\ \E i \in Ran("Execute", "controller") : trace[i].ok

\* the checks of the v2 resource block passed in the call
ChecksPassed ==
    /\ Ran("validateResourceGroup", "resource") # {}
    /\ \A i \in Ran("validateResourceGroup", "resource") : trace[i].ok

\* the registrations of the call that found the resource already registered
NotAdded == { i \in Ran("AddResource", "resource") : ~trace[i].ok }

\* C19: in a v2 call Save() is invoked exactly when DoResource is true, the
\* checks passed and AddResource added the resource; a call with Force for a
\* resource already in the registry goes on to generate the files without a
\* Save() and with the registry as it was.
C19_SaveIffAdded ==
    InV2Call =>
        /\ pc # "v2_save" =>
               (Saves # {} <=> (api.DoResource /\ ChecksPassed /\ Mutations # {}))
        /\ Ran("AddResource", "resource") # {} => (api.DoResource /\ ChecksPassed)
        /\ NotAdded # {} =>
               /\ api.Force
               /\ Saves = {} /\ Mutations = {}
               /\ Count(api.config, IdOf(api.Resource)) = 1
               /\ pc # "v2_save"

C19_Witness ==
    /\ Returned(Ok)
    /\ InV2Call
    /\ api.DoResource /\ api.Force
    /\ NotAdded # {}
    /\ Saves = {}
    /\ Registered(store, IdOf(api.Resource))
    /\ \E i \in Ran("Execute", "resource") : trace[i].ok

\* a v2 call with DoResource true and Force false for a resource that the
\* registry of the object held when the call began
Duplicate ==
    /\ InV2Call
    /\ api.DoResource /\ ~api.Force
    /\ Registered(api.config, IdOf(api.Resource))
    /\ Mutations = {}

\* C20: a v2 Scaffold() call with DoResource true and Force false for a
\* resource already in the registry ends at validateResourceGroup with the
\* already-exists error: no registration, no Save(), no universe built, no
\* file written and no in-place update.
C20_DuplicateRejected ==
    Duplicate =>
        /\ pc \in {"v2", "idle"}
        /\ \A i \in DOMAIN trace : trace[i].step \notin Effects \cup {"Println"}
        /\ pc = "idle" =>
               /\ Returned("exists")
               /\ Len(trace) = 3
               /\ trace[3].step = "validateResourceGroup" /\ ~trace[3].ok

C20_Witness ==
    /\ calls = 2
    /\ Duplicate
    /\ Returned("exists")
    /\ Registered(store, IdOf(api.Resource))
    /\ \A t \in DOMAIN V2ResourceTasks : <<V2ResourceTasks[t], IdOf(api.Resource)>> \in disk

====
